---- MODULE Spec2Model ----
(***************************************************************************)
(* A model of popeye's population-receptive-field fitting core:            *)
(* PopulationFit (construction, the memoized pipeline fields, the flush),  *)
(* PopulationModel.regress and PopulationModel.cache_model, and the batch  *)
(* worker parallel_fit of strf_slim_pa.                                    *)
(*                                                                         *)
(* Specifications: Spec (one Fit and its caller), SpecLookup (one Fit on a *)
(* model with a cached table), SpecTwo (two Fits on one model), SpecBatch  *)
(* (one parallel_fit call), SpecCache (cache_model), SpecR2 (rsquared).    *)
(*                                                                         *)
(* Numbers are exact extended rationals <<p, q>>: q > 0 is the fraction    *)
(* p/q in lowest terms, <<1,0>> is +inf, <<-1,0>> is -inf and <<0,0>> is   *)
(* NaN, with IEEE rules for the non-finite cases (floating-point rounding  *)
(* is not modelled).  Python's None is the empty tuple <<>>.               *)
(***************************************************************************)
EXTENDS Integers, Sequences, FiniteSets, TLC

VARIABLES pc, args, fit, model, last, reads,
          cpc, cgrids, predictor, order, models,
          sample, rsq,
          shared, pargs, pfit, ppc, preads,
          job

vars ==
    <<pc, args, fit, model, last, reads, cpc, cgrids, predictor, order,
      models, sample, rsq, shared, pargs, pfit, ppc, preads, job>>

fitVars == <<pc, args, fit, model, last, reads>>

cacheVars == <<cpc, cgrids, predictor, order, models>>

r2Vars == <<sample, rsq>>

twoVars == <<shared, pargs, pfit, ppc, preads>>

batchVars == <<job>>

---------------------------------------------------------------------------
(* Extended rational arithmetic (numpy float64 without rounding).          *)
(* The(..) of a one-element set binds an operand to its value, so that an  *)
(* operand is evaluated once however often its value is used.              *)

None == <<>>

NaN == <<0, 0>>

PosInf == <<1, 0>>

NegInf == <<-1, 0>>

The(S) == CHOOSE v \in S : TRUE

Abs(i) == IF i < 0 THEN -i ELSE i

Sgn(i) == IF i < 0 THEN -1 ELSE IF i > 0 THEN 1 ELSE 0

RECURSIVE GCD(_, _)
GCD(a, b) ==
    The({ IF y = 0 THEN x ELSE GCD(y, x % y) : x \in {a}, y \in {b} })

Norm(p, q) ==
    The({ IF y = 0 THEN <<Sgn(x), 0>>
          ELSE IF y = 1 THEN <<x, 1>>
          ELSE The({ <<(Sgn(y) * x) \div g, (Sgn(y) * y) \div g>> :
                     g \in {GCD(Abs(x), Abs(y))} }) :
          x \in {p}, y \in {q} })

R(i) == <<i, 1>>

IsNaN(a) == a = NaN

IsInf(a) == The({ x[2] = 0 /\ x[1] # 0 : x \in {a} })

IsFinite(a) == a[2] > 0

RNeg(a) == The({ <<-x[1], x[2]>> : x \in {a} })

RAdd(a, b) ==
    The({ IF x[2] = 0 /\ y[2] = 0
          THEN IF x = y THEN x ELSE NaN
          ELSE Norm(x[1] * y[2] + y[1] * x[2], x[2] * y[2]) :
          x \in {a}, y \in {b} })

RSub(a, b) == RAdd(a, RNeg(b))

RMul(a, b) == The({ Norm(x[1] * y[1], x[2] * y[2]) : x \in {a}, y \in {b} })

RInv(a) == The({ Norm(x[2], x[1]) : x \in {a} })

RDiv(a, b) == RMul(a, RInv(b))

RAbs(a) == The({ <<Abs(x[1]), x[2]>> : x \in {a} })

\* a < b; every comparison with NaN is false
RLt(a, b) ==
    The({ IF x = NaN \/ y = NaN \/ x = y THEN FALSE
          ELSE IF x = NegInf \/ y = PosInf THEN TRUE
          ELSE IF x = PosInf \/ y = NegInf THEN FALSE
          ELSE x[1] * y[2] < y[1] * x[2] :
          x \in {a}, y \in {b} })

RLe(a, b) == The({ (x # NaN /\ x = y) \/ RLt(x, y) : x \in {a}, y \in {b} })

\* np.maximum / np.minimum on scalars (NaN propagates)
RMax(a, b) ==
    The({ IF x = NaN \/ y = NaN THEN NaN ELSE IF RLt(x, y) THEN y ELSE x :
          x \in {a}, y \in {b} })

RMin(a, b) ==
    The({ IF x = NaN \/ y = NaN THEN NaN ELSE IF RLt(y, x) THEN y ELSE x :
          x \in {a}, y \in {b} })

\* a sequence as an explicit tuple
Vec(s) == s \o <<>>

RECURSIVE VSumFrom(_, _)
VSumFrom(v, i) == IF i > Len(v) THEN R(0) ELSE RAdd(v[i], VSumFrom(v, i + 1))

\* np.sum of a vector
VSum(v) == The({ VSumFrom(x, 1) : x \in {v} })

VSub(u, v) ==
    The({ Vec([i \in 1..Len(x) |-> RSub(x[i], y[i])]) : x \in {u}, y \in {v} })

VMul(u, v) ==
    The({ Vec([i \in 1..Len(x) |-> RMul(x[i], y[i])]) : x \in {u}, y \in {v} })

VSq(u) == The({ VMul(x, x) : x \in {u} })

VScale(a, u) ==
    The({ Vec([i \in 1..Len(x) |-> RMul(c, x[i])]) : c \in {a}, x \in {u} })

VShift(u, b) ==
    The({ Vec([i \in 1..Len(x) |-> RAdd(x[i], c)]) : x \in {u}, c \in {b} })

VMean(u) == The({ RDiv(VSum(x), R(Len(x))) : x \in {u} })

VOfInts(s) == Vec([i \in 1..Len(s) |-> R(s[i])])

---------------------------------------------------------------------------
(* The model family and the search routines of popeye.utilities_md that    *)
(* the Fit calls.  They live outside the files modelled here; they are     *)
(* given the behaviour their contract states: pure prediction functions,   *)
(* an exhaustive first-minimum grid search, and bounded constrained        *)
(* optimizers that return some candidate inside the bounds that satisfies  *)
(* every constraint they are handed.                                       *)

\* the stimulus: a bar at positions 1, 2, 3 on a display of 4 degrees
Stimulus == [stim_arr |-> <<1, 2, 3>>, screen_dva |-> R(4)]

\* the grid search space, already sampled per dimension (x, y, sigma)
Grids == << <<R(1), R(2)>>, <<R(0)>>, <<R(1), R(2)>> >>

\* per-parameter (low, high) bounds of x, y, sigma, beta, baseline
Bounds == << <<None, None>>, <<None, None>>, <<<<1, 10>>, None>>,
             <<None, None>>, <<None, None>> >>

\* number of free parameters of the model (x, y, sigma): one per grid
FreeParams == Len(Grids)

\* the parameters of generate_ballpark_prediction, as ballpark_prediction
\* calls it: the free parameters, then the data, and the keyword unscaled
BallparkSignature == <<"x", "y", "sigma", "data", "unscaled">>

\* response of the receptive field (x, y, sigma) to the bar at each sample;
\* p holds x, y, sigma and whatever else the caller passes after them
generate_ballpark_prediction(m, p) ==
    The({ Vec([t \in 1..Len(m.stimulus.stim_arr) |->
                 RMax(R(0),
                      RSub(RSub(q[3],
                                RAbs(RSub(R(m.stimulus.stim_arr[t]), q[1]))),
                           RAbs(q[2])))]) :
          q \in {p} })

\* the ballpark response scaled by beta and shifted by baseline
generate_prediction(m, p) ==
    The({ VShift(VScale(q[4], generate_ballpark_prediction(m, q)), q[5]) :
          q \in {p} })

\* scipy.stats.linregress(X, y)[0:2]: least-squares slope and intercept
linregress(X, y) ==
    The({ The({ <<sl, RDiv(RSub(t[2], RMul(sl, t[1])), t[5])>> :
                sl \in { RDiv(RSub(RMul(t[5], t[3]), RMul(t[1], t[2])),
                              RSub(RMul(t[5], t[4]), RMul(t[1], t[1]))) } }) :
          t \in { <<VSum(X), VSum(y), VSum(VMul(X, y)), VSum(VSq(X)),
                    R(Len(X))>> } })

\* utils.error_function on the grid: residual sum of squares after scaling
error_function(m, p, data) ==
    The({ The({ VSum(VSq(VSub(data, VShift(VScale(si[1], bp), si[2])))) :
                si \in {linregress(bp, data)} }) :
          bp \in {generate_ballpark_prediction(m, p)} })

\* itertools.product of the grid dimensions, last dimension fastest
GridCombos(g) ==
    Vec([k \in 1..(Len(g[1]) * Len(g[2]) * Len(g[3])) |->
        << g[1][((k - 1) \div (Len(g[2]) * Len(g[3]))) + 1],
           g[2][(((k - 1) \div Len(g[3])) % Len(g[2])) + 1],
           g[3][((k - 1) % Len(g[3])) + 1] >>])

RECURSIVE ArgMinFrom(_, _, _)
ArgMinFrom(e, i, best) ==
    IF i > Len(e) THEN best
    ELSE The({ ArgMinFrom(e, i + 1, b) :
               b \in {IF RLt(e[i], e[best]) THEN i ELSE best} })

RECURSIVE ArgMinLastFrom(_, _, _)
ArgMinLastFrom(e, i, best) ==
    IF i > Len(e) THEN best
    ELSE The({ ArgMinLastFrom(e, i + 1, b) :
               b \in {IF RLe(e[i], e[best]) THEN i ELSE best} })

\* an argmin that returns the last index of the minimum
ArgMin_Last(e) == The({ ArgMinLastFrom(x, 2, 1) : x \in {e} })

\* np.argmin: the first index of the minimum
ArgMin(e) == The({ ArgMinFrom(x, 2, 1) : x \in {e} })

\* utils.brute_force_search: (x0, fval, grid, Jout) of the exhaustive search
brute_force_search(m, data, g) ==
    The({ The({ The({ [kind |-> "result", x0 |-> cs[k0], fval |-> es[k0]] :
                      k0 \in {ArgMin(es)} }) :
                es \in { Vec([k \in 1..Len(cs) |->
                                error_function(m, cs[k], data)]) } }) :
          cs \in {GridCombos(g)} })

\* the points an optimizer run may end at: (x, y, sigma, beta, baseline)
Candidates ==
    { <<R(2), R(0), R(1), R(1), R(0)>>,
      <<R(4), R(0), <<1, 2>>, R(1), R(0)>>,
      <<R(5), R(0), R(3), R(1), R(0)>> }

InBounds(b, x) ==
    \A i \in 1..Len(x) :
        /\ (b[i][1] = None \/ RLe(b[i][1], x[i]))
        /\ (b[i][2] = None \/ RLe(x[i], b[i][2]))

\* value of a constraint function at x, as the pair (s, c) standing for
\* sqrt(s) - c: "radius" is sqrt(x0^2 + x1^2), "radius_minus_limit" is
\* sqrt(x0^2 + x1^2) - outer_limit * x2
ConstraintValue(con, x) ==
    IF con.fun = "radius"
    THEN <<RAdd(RMul(x[1], x[1]), RMul(x[2], x[2])), R(0)>>
    ELSE <<RAdd(RMul(x[1], x[1]), RMul(x[2], x[2])),
           RMul(con.outer_limit, x[3])>>

\* lb <= sqrt(s) - c <= ub, for lb = -inf: sqrt(s) <= ub + c
Satisfies(con, x) ==
    The({ The({ /\ con.lb = NegInf
                /\ RLe(R(0), rhs)
                /\ RLe(v[1], RMul(rhs, rhs)) :
                rhs \in {RAdd(con.ub, v[2])} }) :
          v \in {ConstraintValue(con, x)} })

\* results utils.gradient_descent_search may return when started at x0
gradient_descent_search(x0, b, cons) ==
    { c \in Candidates :
        /\ Len(c) = Len(x0)
        /\ InBounds(b, c)
        /\ \A k \in 1..Len(cons) : Satisfies(cons[k], c) }

\* results utils.global_search may return
global_search(b, cons) ==
    { c \in Candidates :
        /\ Len(c) = Len(b)
        /\ InBounds(b, c)
        /\ \A k \in 1..Len(cons) : Satisfies(cons[k], c) }

---------------------------------------------------------------------------
(* PopulationModel                                                         *)

\* PopulationModel.regress
regress(m, X, y) ==
    The({ IF m.bounded_amplitude THEN <<RAbs(si[1]), si[2]>> ELSE si :
          si \in {linregress(X, y)} })

\* the outcome of a call that raises
Raises == <<"raises">>

\* cache_model's mini_predictor: the (prediction, combo) pair of one combo,
\* or Raises when the model's prediction function raises on it.  pred maps
\* a combo to what self.generate_ballpark_prediction(*combo) does with it.
mini_predictor(pred, combo) ==
    IF pred[combo] = Raises THEN Raises ELSE <<pred[combo], combo>>

\* sharedmem.Pool.map: the results in the order of the inputs; an exception
\* in any unit is raised again in the caller and no result is returned
pool_map(pred, cs) ==
    IF \E k \in 1..Len(cs) : mini_predictor(pred, cs[k]) = Raises
    THEN [raised |-> TRUE, out |-> <<>>]
    ELSE [raised |-> FALSE,
          out |-> Vec([k \in 1..Len(cs) |-> mini_predictor(pred, cs[k])])]

\* the clean-up of cache_model: not np.isnan(np.sum(m[0]))
KeepModel(m) == ~IsNaN(VSum(m[1]))

RECURSIVE CleanUp(_)
CleanUp(ms) ==
    IF ms = <<>> THEN <<>>
    ELSE IF KeepModel(Head(ms)) THEN <<Head(ms)>> \o CleanUp(Tail(ms))
    ELSE CleanUp(Tail(ms))

\* PopulationModel.cache_model with idx the random order np.argsort draws
cache_model(g, pred, idx) ==
    The({ The({ IF r.raised THEN [raised |-> TRUE, models |-> <<>>]
                ELSE [raised |-> FALSE, models |-> CleanUp(r.out)] :
                r \in { pool_map(pred,
                                  Vec([k \in 1..Len(cs) |-> cs[idx[k]]])) } }) :
          cs \in {GridCombos(g)} })

---------------------------------------------------------------------------
(* PopulationFit: the instance, and the memoized attributes.               *)
(* An attribute getter maps the instance f to the instance after the read: *)
(* f.exc names the exception a read raised ("none" when it returned),      *)
(* f.ret carries a body's return value to the attribute wrapper, f.calls   *)
(* counts the executions of each body, f.done the executions that returned *)
(* a value, f.first keeps the value of a field's first computation, and    *)
(* f.log lists what __init__ ran.                                          *)
(* The oracle o is the point the optimizer run of this read ends at; a     *)
(* read is possible only for an o the optimizer can return (f.stuck).      *)

Fields ==
    { "best_cached_model_parameters", "brute_force", "ballpark",
      "gradient_descent", "global_opt", "overloaded_estimate", "estimate",
      "ballpark_prediction", "scaled_ballpark_prediction", "slope",
      "intercept", "prediction", "rsquared", "rsquared_adj", "rsquared0",
      "rss", "msg" }

Ok(f) == f.exc = "none" /\ ~f.stuck

Has(f, name) == f.memo[name] # <<>>

Val(f, name) == f.memo[name][1]

Raise(f, e) == IF Ok(f) THEN [f EXCEPT !.exc = e] ELSE f

Stuck(f) == [f EXCEPT !.stuck = TRUE]

Ret(f, v) == IF Ok(f) THEN [f EXCEPT !.ret = v] ELSE f

\* what __init__ ran, in order: <<"step", s>> for a statement of __init__,
\* <<"call", n>> when the body of field n starts, <<"ret", n>> when it returns
Log(f, e) ==
    IF f.in_init THEN [f EXCEPT !.log = Append(@, <<"step", e>>)] ELSE f

\* a body starts to run
Enter(f, name) ==
    IF f.in_init
    THEN [f EXCEPT !.calls[name] = @ + 1,
                   !.log = Append(@, <<"call", name>>)]
    ELSE [f EXCEPT !.calls[name] = @ + 1]

\* popeye.onetime.auto_attr: the first read runs the body and stores its
\* result on the instance; later reads return what the instance holds.  r is
\* the instance after the body ran (used only when nothing is stored yet).
auto_attr(f, name, r) ==
    IF ~Ok(f) \/ Has(f, name) THEN f
    ELSE The({ IF ~Ok(y) THEN y
               ELSE [y EXCEPT !.memo[name] = <<y.ret>>, !.ret = None,
                              !.done[name] = @ + 1,
                              !.first[name] =
                                  IF @ = <<>> THEN <<y.ret>> ELSE @,
                              !.log = IF y.in_init
                                      THEN Append(@, <<"ret", name>>)
                                      ELSE @] :
               y \in {r} })

\* PopulationFit.best_cached_model_parameters
best_cached_model_parameters(f, m) ==
    The({ auto_attr(x, "best_cached_model_parameters",
            The({ IF m.cached_model_path = None THEN Raise(f0, "TypeError")
                  ELSE Ret(f0, m.cached_model_parameters[
                      ArgMin(Vec([k \in 1..Len(m.cached_model_timeseries) |->
                          VSum(VSq(VSub(m.cached_model_timeseries[k],
                                        f0.data)))]))]) :
                  f0 \in {Enter(x, "best_cached_model_parameters")} })) :
          x \in {f} })

\* a grid search against the data the model holds
brute_force_ModelData(f, m) ==
    The({ auto_attr(x, "brute_force",
            The({ Ret(f0, brute_force_search(m, m.data, f0.grids)) :
                  f0 \in {Enter(x, "brute_force")} })) :
          x \in {f} })

\* PopulationFit.brute_force
brute_force(f, m) ==
    The({ auto_attr(x, "brute_force",
            The({ Ret(f0, brute_force_search(m, f0.data, f0.grids)) :
                  f0 \in {Enter(x, "brute_force")} })) :
          x \in {f} })

\* self.brute_force[0]: the grid winner, or None once the tuple is flushed
BruteForce0(f) ==
    IF Val(f, "brute_force").kind = "result" THEN Val(f, "brute_force").x0
    ELSE None

\* PopulationFit.ballpark_prediction
ballpark_prediction(f, m) ==
    The({ auto_attr(x, "ballpark_prediction",
            The({ IF ~Ok(f1) THEN f1
                  ELSE IF BruteForce0(f1) = None THEN Raise(f1, "TypeError")
                  ELSE Ret(f1, generate_ballpark_prediction(m,
                               BruteForce0(f1) \o <<f1.data, TRUE>>)) :
                  f1 \in {brute_force(Enter(x, "ballpark_prediction"), m)} })) :
          x \in {f} })

\* PopulationFit.slope
slope(f, m) ==
    The({ auto_attr(x, "slope",
            The({ Ret(f1, regress(m, Val(f1, "ballpark_prediction"),
                                  f1.data)[1]) :
                  f1 \in {ballpark_prediction(Enter(x, "slope"), m)} })) :
          x \in {f} })

\* PopulationFit.intercept
intercept(f, m) ==
    The({ auto_attr(x, "intercept",
            The({ Ret(f1, regress(m, Val(f1, "ballpark_prediction"),
                                  f1.data)[2]) :
                  f1 \in {ballpark_prediction(Enter(x, "intercept"), m)} })) :
          x \in {f} })

\* PopulationFit.scaled_ballpark_prediction
scaled_ballpark_prediction(f, m) ==
    The({ auto_attr(x, "scaled_ballpark_prediction",
            The({ Ret(f3, VShift(VScale(Val(f3, "slope"),
                                        Val(f3, "ballpark_prediction")),
                                 Val(f3, "intercept"))) :
                  f3 \in { intercept(slope(ballpark_prediction(
                             Enter(x, "scaled_ballpark_prediction"), m), m),
                             m) } })) :
          x \in {f} })

\* np.tile(None, n): the placeholder of the global_opt path
Placeholder(n) == Vec([i \in 1..n |-> None])

\* a ballpark that appends the intercept before the slope
ballpark_InterceptFirst(f, m) ==
    The({ auto_attr(x, "ballpark",
            IF x.fit_method = "global_opt"
            THEN Ret(Enter(x, "ballpark"),
                     Placeholder(Len(BallparkSignature) + 2))
            ELSE IF m.cached_model_path # None
            THEN The({ Ret(c1, Val(c1, "best_cached_model_parameters")) :
                       c1 \in { best_cached_model_parameters(
                                    Enter(x, "ballpark"), m) } })
            ELSE The({ Ret(f3, (IF BruteForce0(f3) = None THEN <<None>>
                                ELSE BruteForce0(f3))
                               \o <<Val(f3, "intercept"), Val(f3, "slope")>>) :
                       f3 \in { intercept(slope(brute_force(
                                    Enter(x, "ballpark"), m), m), m) } })) :
          x \in {f} })

\* PopulationFit.ballpark
ballpark(f, m) ==
    The({ auto_attr(x, "ballpark",
            IF x.fit_method = "global_opt"
            THEN Ret(Enter(x, "ballpark"),
                     Placeholder(Len(BallparkSignature) + 2))
            ELSE IF m.cached_model_path # None
            THEN The({ Ret(c1, Val(c1, "best_cached_model_parameters")) :
                       c1 \in { best_cached_model_parameters(
                                    Enter(x, "ballpark"), m) } })
            ELSE The({ Ret(f3, (IF BruteForce0(f3) = None THEN <<None>>
                                ELSE BruteForce0(f3))
                               \o <<Val(f3, "slope"), Val(f3, "intercept")>>) :
                       f3 \in { intercept(slope(brute_force(
                                    Enter(x, "ballpark"), m), m), m) } })) :
          x \in {f} })

\* PopulationFit.gradient_descent
gradient_descent(f, m, o) ==
    The({ auto_attr(x, "gradient_descent",
            The({ IF ~Ok(f1) THEN f1
                  ELSE IF \E i \in 1..Len(Val(f1, "ballpark")) :
                              Val(f1, "ballpark")[i] = None
                  THEN Raise(f1, "TypeError")
                  ELSE IF o \notin gradient_descent_search(
                               Val(f1, "ballpark"), f1.bounds, f1.constraints)
                  THEN Stuck(f1)
                  ELSE Ret(f1, [kind |-> "result", x |-> o]) :
                  f1 \in {ballpark(Enter(x, "gradient_descent"), m)} })) :
          x \in {f} })

\* PopulationFit.global_opt
global_opt(f, m, o) ==
    The({ auto_attr(x, "global_opt",
            The({ IF o \notin global_search(f0.bounds, f0.constraints)
                  THEN Stuck(f0)
                  ELSE Ret(f0, [kind |-> "result", x |-> o]) :
                  f0 \in {Enter(x, "global_opt")} })) :
          x \in {f} })

\* PopulationFit.overloaded_estimate
overloaded_estimate(f) ==
    The({ auto_attr(x, "overloaded_estimate",
                    Ret(Enter(x, "overloaded_estimate"), None)) :
          x \in {f} })

\* an estimate that always takes the local optimizer's result
estimate_AlwaysLocal(f, m, o) ==
    The({ auto_attr(x, "estimate",
            The({ IF ~Ok(d1) THEN d1
                  ELSE IF Val(d1, "gradient_descent").kind # "result"
                  THEN Raise(d1, "AttributeError")
                  ELSE Ret(d1, Val(d1, "gradient_descent").x) :
                  d1 \in { gradient_descent(Enter(x, "estimate"), m,
                                            o) } })) :
          x \in {f} })

\* PopulationFit.estimate
estimate(f, m, o) ==
    The({ auto_attr(x, "estimate",
            IF x.fit_method = "global_opt"
            THEN The({ IF ~Ok(g1) THEN g1
                       ELSE IF Val(g1, "global_opt").kind # "result"
                       THEN Raise(g1, "AttributeError")
                       ELSE Ret(g1, Val(g1, "global_opt").x) :
                       g1 \in {global_opt(Enter(x, "estimate"), m, o)} })
            ELSE The({ IF ~Ok(d1) THEN d1
                       ELSE IF Val(d1, "gradient_descent").kind # "result"
                       THEN Raise(d1, "AttributeError")
                       ELSE Ret(d1, Val(d1, "gradient_descent").x) :
                       d1 \in {gradient_descent(Enter(x, "estimate"), m, o)} })) :
          x \in {f} })

\* self.model.generate_prediction(*p) from the instance state f
CallPrediction(f, m, p) ==
    IF ~Ok(f) THEN f
    ELSE IF Len(p) # FreeParams + 2 THEN Raise(f, "TypeError")
    ELSE Ret(f, generate_prediction(m, p))

\* PopulationFit.prediction
prediction(f, m, o) ==
    The({ auto_attr(x, "prediction",
            IF x.fit_method = "grid_only"
            THEN The({ CallPrediction(b1, m, Val(b1, "ballpark")) :
                       b1 \in {ballpark(Enter(x, "prediction"), m)} })
            ELSE The({ CallPrediction(e1, m, Val(e1, "estimate")) :
                       e1 \in {estimate(Enter(x, "prediction"), m, o)} })) :
          x \in {f} })

\* np.sum((data - prediction)**2)
RssOf(data, pred) == VSum(VSq(VSub(data, pred)))

\* PopulationFit.rss
rss(f, m, o) ==
    The({ auto_attr(x, "rss",
            The({ Ret(f1, RssOf(f1.data, Val(f1, "prediction"))) :
                  f1 \in {prediction(Enter(x, "rss"), m, o)} })) :
          x \in {f} })

\* 1 - rss / np.sum((data - data.mean())**2)
RawRSquared(r, data) ==
    RSub(R(1), RDiv(r, VSum(VSq(VShift(data, RNeg(VMean(data)))))))

\* a clean-up that clamps without testing for inf and NaN first
CleanRSquared_NoNonFiniteTest(r2) == RMin(RMax(r2, R(0)), R(1))

\* the clean-up of PopulationFit.rsquared
CleanRSquared(r2) ==
    The({ IF IsInf(v) \/ IsNaN(v) THEN R(0)
          ELSE RMin(RMax(v, R(0)), R(1)) :
          v \in {r2} })

\* the value PopulationFit.rsquared returns for rss r and the data
RSquaredValue(r, data) == CleanRSquared(RawRSquared(r, data))

\* PopulationFit.rsquared
rsquared(f, m, o) ==
    The({ auto_attr(x, "rsquared",
            The({ Ret(f1, RSquaredValue(Val(f1, "rss"), f1.data)) :
                  f1 \in {rss(Enter(x, "rsquared"), m, o)} })) :
          x \in {f} })

\* PopulationFit.rsquared_adj
rsquared_adj(f, m, o) ==
    The({ auto_attr(x, "rsquared_adj",
            The({ Ret(f2, RSub(R(1),
                      RDiv(RMul(RSub(R(1), Val(f2, "rsquared")),
                                R(Len(f2.data) - 1)),
                           R(Len(f2.data) - Len(Val(f2, "estimate")) - 1)))) :
                  f2 \in { estimate(rsquared(Enter(x, "rsquared_adj"), m, o),
                                    m, o) } })) :
          x \in {f} })

\* np.corrcoef(x, y)[1][0] ** 2
CorrCoefSq(x, y) ==
    The({ RDiv(RMul(t[1], t[1]), RMul(t[2], t[3])) :
          t \in { << RSub(RMul(R(Len(x)), VSum(VMul(x, y))),
                          RMul(VSum(x), VSum(y))),
                     RSub(RMul(R(Len(x)), VSum(VSq(x))),
                          RMul(VSum(x), VSum(x))),
                     RSub(RMul(R(Len(x)), VSum(VSq(y))),
                          RMul(VSum(y), VSum(y))) >> } })

\* PopulationFit.rsquared0
rsquared0(f, m) ==
    The({ auto_attr(x, "rsquared0",
            IF x.fit_method # "global_opt"
            THEN The({ Ret(f1, CorrCoefSq(f1.data,
                               Val(f1, "scaled_ballpark_prediction"))) :
                       f1 \in { scaled_ballpark_prediction(
                                    Enter(x, "rsquared0"), m) } })
            ELSE Ret(Enter(x, "rsquared0"), None)) :
          x \in {f} })

\* PopulationFit.msg: the fields the summary string is formatted from
msg(f, m, o) ==
    The({ auto_attr(x, "msg",
            The({ IF Ok(f1) /\ f1.auto_fit
                     /\ Val(f1, "overloaded_estimate") # None
                  THEN The({ Ret(f2, [voxel |-> f2.voxel_index,
                                      timems |-> <<f2.finish - f2.start>>,
                                      rsq |-> Val(f2, "rsquared"),
                                      est |-> Val(f2, "overloaded_estimate")]) :
                             f2 \in {rsquared(f1, m, o)} })
                  ELSE The({ Ret(f3, [voxel |-> f3.voxel_index,
                                      timems |-> IF f3.auto_fit
                                                 THEN <<f3.finish - f3.start>>
                                                 ELSE None,
                                      rsq |-> Val(f3, "rsquared"),
                                      est |-> Val(f3, "estimate")]) :
                             f3 \in {estimate(rsquared(f1, m, o), m, o)} }) :
                  f1 \in { IF x.auto_fit
                           THEN overloaded_estimate(Enter(x, "msg"))
                           ELSE Enter(x, "msg") } })) :
          x \in {f} })

\* set_verbose, for verbose in 0..2
set_verbose(verbose) == <<verbose >= 1, verbose = 2>>

ValidFitMethods == {"2step", "grid_only", "global_opt"}

\* the nuisance callables a caller may pass: <<>> is None
NuisanceOf(fn, data) ==
    IF fn = <<"add_one">> THEN VShift(data, R(1)) ELSE data

\* __init__, "absorb vars": the instance the arguments a are stored on
NewInstance(a) ==
    [ grids |-> a.grids, bounds |-> a.bounds, Ns |-> a.Ns,
      voxel_index |-> a.voxel_index, auto_fit |-> a.auto_fit,
      grid_only |-> a.grid_only, outer_limit |-> a.outer_limit,
      data |-> a.data, nuisance |-> a.nuisance,
      verbose |-> set_verbose(a.verbose)[1],
      very_verbose |-> set_verbose(a.verbose)[2],
      fit_method |-> "unset", constraints |-> <<>>,
      start |-> -1, finish |-> -1,
      memo |-> [n \in Fields |-> <<>>],
      first |-> [n \in Fields |-> <<>>],
      calls |-> [n \in Fields |-> 0],
      done |-> [n \in Fields |-> 0],
      nuisance_calls |-> 0, pushed |-> FALSE,
      exc |-> "none", stuck |-> FALSE, ret |-> None,
      log |-> <<>>, in_init |-> TRUE ]

\* __init__: self.fit_method, overridden when grid_only is given
EffectiveFitMethod(grid_only, fit_method) ==
    IF grid_only THEN "grid_only" ELSE fit_method

\* constraints whose second upper limit is the whole screen extent
Constraints_WholeExtent(f, m) ==
    << [fun |-> "radius", outer_limit |-> R(0),
        lb |-> NegInf, ub |-> m.stimulus.screen_dva],
       [fun |-> "radius_minus_limit", outer_limit |-> f.outer_limit,
        lb |-> NegInf, ub |-> m.stimulus.screen_dva] >>

\* __init__: the two NonlinearConstraint objects handed to the solvers
Constraints(f, m) ==
    << [fun |-> "radius", outer_limit |-> R(0),
        lb |-> NegInf, ub |-> m.stimulus.screen_dva],
       [fun |-> "radius_minus_limit", outer_limit |-> f.outer_limit,
        lb |-> NegInf, ub |-> RDiv(m.stimulus.screen_dva, R(2))] >>

\* __init__: regress out the nuisance
ApplyNuisance(f) ==
    IF f.nuisance # None
    THEN Log([f EXCEPT !.data = NuisanceOf(f.nuisance, f.data),
                       !.nuisance_calls = @ + 1], "nuisance")
    ELSE f

\* __init__: the data pushed down to the model
PushedData(a, f) == a.data

\* a flush that also overwrites the ballpark
Flush_AlsoBallpark(f) ==
    Log([f EXCEPT
          !.memo["gradient_descent"] = <<[kind |-> "flushed", x |-> None]>>,
          !.memo["brute_force"] =
              <<[kind |-> "flushed", x0 |-> None, fval |-> None]>>,
          !.memo["global_opt"] = <<[kind |-> "flushed", x |-> None]>>,
          !.memo["ballpark"] = <<Placeholder(FreeParams + 2)>>],
        "flush")

\* __init__, the flush of the search results
Flush(f) ==
    Log([f EXCEPT
          !.memo["gradient_descent"] = <<[kind |-> "flushed", x |-> None]>>,
          !.memo["brute_force"] =
              <<[kind |-> "flushed", x0 |-> None, fval |-> None]>>,
          !.memo["global_opt"] = <<[kind |-> "flushed", x |-> None]>>],
        "flush")

\* time.time(): the position reached in the construction
Now(f) == Len(f.log)

\* an automatic fitting that takes the finish time after rss and rsquared
AutoFit_FinishLast(f, m, fit_method, o) ==
    The({ The({ The({ The({ The({ The({
        IF Ok(f6) /\ f6.verbose THEN msg(Log(f6, "print"), m, o) ELSE f6 :
        f6 \in { IF Ok(f5) /\ ~m.store_search_space THEN Flush(f5)
                 ELSE f5 } }) :
        f5 \in { IF Ok(f4) THEN [Log(f4, "finish") EXCEPT !.finish = Now(f4)]
                 ELSE f4 } }) :
        f4 \in { IF fit_method # "grid_only"
                 THEN rsquared(rss(f3, m, o), m, o) ELSE f3 } }) :
        f3 \in { IF fit_method # "grid_only"
                 THEN overloaded_estimate(estimate(f2, m, o)) ELSE f2 } }) :
        f2 \in { IF fit_method # "global_opt" THEN ballpark(f1, m)
                 ELSE f1 } }) :
        f1 \in { [Log(f, "start") EXCEPT !.start = Now(f)] } })

\* __init__, automatic fitting: the stages run at construction.  The tests
\* are on the fit_method argument, the getters read self.fit_method.
AutoFit(f, m, fit_method, o) ==
    The({ The({ The({ The({ The({ The({
        IF Ok(f6) /\ f6.verbose THEN msg(Log(f6, "print"), m, o) ELSE f6 :
        f6 \in { IF Ok(f5) /\ ~m.store_search_space THEN Flush(f5)
                 ELSE f5 } }) :
        f5 \in { IF fit_method # "grid_only"
                 THEN rsquared(rss(f4, m, o), m, o) ELSE f4 } }) :
        f4 \in { IF Ok(f3) THEN [Log(f3, "finish") EXCEPT !.finish = Now(f3)]
                 ELSE f3 } }) :
        f3 \in { IF fit_method # "grid_only"
                 THEN overloaded_estimate(estimate(f2, m, o)) ELSE f2 } }) :
        f2 \in { IF fit_method # "global_opt" THEN ballpark(f1, m)
                 ELSE f1 } }) :
        f1 \in { [Log(f, "start") EXCEPT !.start = Now(f)] } })

\* __init__ after the assertion on fit_method: the instance and the model
InitBody(a, m, o) ==
    The({ The({ The({ The({ The({
        [fit |-> [f5 EXCEPT !.in_init = FALSE, !.ret = None], model |-> m4] :
        f5 \in { IF f4.auto_fit THEN AutoFit(f4, m4, a.fit_method, o)
                 ELSE f4 } }) :
        f4 \in { Log([f3 EXCEPT !.pushed = TRUE], "push") },
        m4 \in { [m EXCEPT !.data = PushedData(a, f3)] } }) :
        f3 \in { ApplyNuisance(f2) } }) :
        f2 \in { [f1 EXCEPT !.constraints = Constraints(f1, m)] } }) :
        f1 \in { [NewInstance(a) EXCEPT !.fit_method =
                     EffectiveFitMethod(a.grid_only, a.fit_method)] } })

\* an __init__ that asserts on the overridden fit_method
PopulationFit_init_AssertAfterOverride(a, m, o) ==
    IF EffectiveFitMethod(a.grid_only, a.fit_method) \notin ValidFitMethods
    THEN [fit |-> [Raise(NewInstance(a), "AssertionError")
                      EXCEPT !.in_init = FALSE],
          model |-> m]
    ELSE InitBody(a, m, o)

\* PopulationFit.__init__: the instance and the model after construction
PopulationFit_init(a, m, o) ==
    IF a.fit_method \notin ValidFitMethods
    THEN [fit |-> [Raise(NewInstance(a), "AssertionError")
                      EXCEPT !.in_init = FALSE],
          model |-> m]
    ELSE InitBody(a, m, o)

\* reading the attribute name of a constructed Fit
ReadAttr(f, m, name, o) ==
    CASE name = "best_cached_model_parameters" ->
             best_cached_model_parameters(f, m)
      [] name = "brute_force" -> brute_force(f, m)
      [] name = "ballpark" -> ballpark(f, m)
      [] name = "gradient_descent" -> gradient_descent(f, m, o)
      [] name = "global_opt" -> global_opt(f, m, o)
      [] name = "overloaded_estimate" -> overloaded_estimate(f)
      [] name = "estimate" -> estimate(f, m, o)
      [] name = "ballpark_prediction" -> ballpark_prediction(f, m)
      [] name = "scaled_ballpark_prediction" ->
             scaled_ballpark_prediction(f, m)
      [] name = "slope" -> slope(f, m)
      [] name = "intercept" -> intercept(f, m)
      [] name = "prediction" -> prediction(f, m, o)
      [] name = "rsquared" -> rsquared(f, m, o)
      [] name = "rsquared_adj" -> rsquared_adj(f, m, o)
      [] name = "rsquared0" -> rsquared0(f, m)
      [] name = "rss" -> rss(f, m, o)
      [] name = "msg" -> msg(f, m, o)

---------------------------------------------------------------------------
(* The life of one Fit: the caller's arguments, construction, reads.       *)

\* the reads a caller makes of one constructed Fit
MaxReads == 2

DataSet == { VOfInts(<<1, 2, 1>>) }

FitMethodArgs == ValidFitMethods \cup {"bogus"}

ArgSpace ==
    [ data : DataSet, grids : {Grids}, bounds : {Bounds}, Ns : {<<>>},
      voxel_index : {<<1, 2, 3>>}, auto_fit : BOOLEAN, grid_only : BOOLEAN,
      fit_method : FitMethodArgs, outer_limit : {R(2)},
      nuisance : {None, <<"add_one">>}, verbose : 0..1 ]

ModelSpace ==
    [ stimulus : {Stimulus}, data : {None}, store_search_space : BOOLEAN,
      bounded_amplitude : {FALSE}, cached_model_path : {None},
      cached_model_timeseries : {<<>>}, cached_model_parameters : {<<>>} ]

\* the caller's last call on the Fit: the attribute read ("__init__" for the
\* construction), how it ended, and the value a read returned
NoCall == [name |-> "none", outcome |-> "none", value |-> <<>>]

Outcome(f) == IF f.exc = "none" THEN "returned" ELSE f.exc

CacheIdle ==
    /\ cpc = "unused"
    /\ cgrids = <<>>
    /\ predictor = <<>>
    /\ order = <<>>
    /\ models = <<>>

R2Idle ==
    /\ sample = <<>>
    /\ rsq = <<>>

TwoIdle ==
    /\ shared = <<>>
    /\ pargs = <<>>
    /\ pfit = <<>>
    /\ ppc = <<>>
    /\ preads = 0

BatchIdle == job = <<>>

Init ==
    /\ pc = "new"
    /\ args \in ArgSpace
    /\ model \in ModelSpace
    /\ fit = NewInstance(args)
    /\ last = NoCall
    /\ reads = 0
    /\ CacheIdle
    /\ R2Idle
    /\ TwoIdle
    /\ BatchIdle

\* fit = PopulationFit(model, data, grids, bounds, ...)
Construct ==
    /\ pc = "new"
    /\ \E o \in Candidates :
         \E r \in {PopulationFit_init(args, model, o)} :
             /\ ~r.fit.stuck
             /\ fit' = r.fit
             /\ model' = r.model
             /\ pc' = IF r.fit.exc = "none" THEN "constructed" ELSE "raised"
             /\ last' = [name |-> "__init__", outcome |-> Outcome(r.fit),
                         value |-> <<>>]
    /\ UNCHANGED <<args, reads, cacheVars, r2Vars, twoVars, batchVars>>

\* the attributes whose getter can reach an optimizer
Refining ==
    { "gradient_descent", "global_opt", "estimate", "prediction", "rss",
      "rsquared", "rsquared_adj", "msg" }

\* the optimizer outcomes a read of name has to be taken over
Oracles(name) ==
    IF name \in Refining THEN Candidates ELSE {CHOOSE c \in Candidates : TRUE}

\* fit.<name>, by the caller that holds the constructed Fit
Read(name) ==
    /\ pc = "constructed"
    /\ reads < MaxReads
    /\ reads' = reads + 1
    /\ \E o \in Oracles(name) :
         \E r \in {ReadAttr(fit, model, name, o)} :
             /\ ~r.stuck
             /\ fit' = [r EXCEPT !.exc = "none", !.ret = None]
             /\ last' = [name |-> name, outcome |-> Outcome(r),
                         value |-> IF r.exc = "none" THEN r.memo[name]
                                   ELSE <<>>]
    /\ UNCHANGED <<pc, args, model, cacheVars, r2Vars, twoVars, batchVars>>

Next == Construct \/ \E name \in Fields : Read(name)

Spec == Init /\ [][Next]_vars

---------------------------------------------------------------------------
(* PopulationModel.cache_model over a grid, for any behaviour of the       *)
(* model's ballpark prediction on each combination.                        *)

\* values per grid dimension of the cached grid
CacheGridSize == 3

\* samples per cached prediction
PredictionLen == 2

CacheGrids ==
    << Vec([i \in 1..CacheGridSize |-> R(i)]), <<R(0)>>, <<R(1)>> >>

\* what the ballpark prediction of one combination can be
PredictionOutcomes ==
    { Raises } \cup
    { Vec([t \in 1..PredictionLen |-> IF t = 1 THEN v ELSE R(1)]) :
      v \in {R(2), NaN, PosInf, NegInf} } \cup
    { Vec([t \in 1..PredictionLen |-> IF t = 1 THEN PosInf ELSE NegInf]) }

ComboSet(g) == { GridCombos(g)[k] : k \in 1..Len(GridCombos(g)) }

Orders(n) ==
    { Vec(p) : p \in { q \in [1..n -> 1..n] :
                       \A i, j \in 1..n : q[i] = q[j] => i = j } }

FitIdle ==
    /\ pc = "unused"
    /\ args = CHOOSE a \in ArgSpace : TRUE
    /\ model = CHOOSE m \in ModelSpace : TRUE
    /\ fit = NewInstance(args)
    /\ last = NoCall
    /\ reads = 0

InitCache ==
    /\ FitIdle
    /\ R2Idle
    /\ TwoIdle
    /\ BatchIdle
    /\ cpc = "idle"
    /\ cgrids = CacheGrids
    /\ predictor \in [ComboSet(CacheGrids) -> PredictionOutcomes]
    /\ order = <<>>
    /\ models = <<>>

\* model.cache_model(grids)
CacheModel ==
    /\ cpc = "idle"
    /\ \E idx \in Orders(Len(GridCombos(cgrids))) :
         \E r \in {cache_model(cgrids, predictor, idx)} :
             /\ cpc' = IF r.raised THEN "raised" ELSE "returned"
             /\ models' = r.models
             /\ order' = idx
    /\ UNCHANGED <<cgrids, predictor, fitVars, r2Vars, twoVars, batchVars>>

NextCache == CacheModel

SpecCache == InitCache /\ [][NextCache]_vars

---------------------------------------------------------------------------
(* PopulationFit.rsquared as a function of the data and the prediction.    *)

\* the finite sample values are 0..MaxSample
MaxSample == 2

\* samples per timeseries
SampleLen == 2

\* what one sample of the data or of the prediction can be
SampleValues == { R(i) : i \in 0..MaxSample } \cup {PosInf, NaN}

Timeseries == { Vec(v) : v \in [1..SampleLen -> SampleValues] }

InitR2 ==
    /\ FitIdle
    /\ CacheIdle
    /\ TwoIdle
    /\ BatchIdle
    /\ sample \in [data : Timeseries, prediction : Timeseries]
    /\ rsq = <<>>

\* fit.rsquared for a Fit whose data and prediction are those of sample
RSquared ==
    /\ rsq = <<>>
    /\ \E r \in {RawRSquared(RssOf(sample.data, sample.prediction),
                             sample.data)} :
         rsq' = [raw |-> r,
                value |-> RSquaredValue(RssOf(sample.data, sample.prediction),
                                        sample.data)]
    /\ UNCHANGED <<sample, fitVars, cacheVars, twoVars, batchVars>>

NextR2 == RSquared

SpecR2 == InitR2 /\ [][NextR2]_vars

---------------------------------------------------------------------------
(* Two Fits on one Model: each is constructed once, without automatic      *)
(* fitting, and their attributes are read in any interleaving.             *)

\* the reads the callers make of the two Fits together
MaxPairReads == 2

\* the data of the first and of the second Fit
PairData == << VOfInts(<<1, 2, 1>>), VOfInts(<<2, 1, 0>>) >>

\* the other arguments of a Fit of the pair: automatic fitting is off
PairArgs ==
    { a \in ArgSpace : /\ ~a.auto_fit /\ ~a.grid_only /\ a.verbose = 0
                       /\ a.nuisance = None
                       /\ a.fit_method \in ValidFitMethods }

\* the arguments of Fit i: those of a with the data of Fit i
WithData(a, i) == [a EXCEPT !.data = PairData[i]]

\* the model both Fits are constructed on
SharedModel ==
    [ stimulus |-> Stimulus, data |-> None, store_search_space |-> FALSE,
      bounded_amplitude |-> FALSE, cached_model_path |-> None,
      cached_model_timeseries |-> <<>>, cached_model_parameters |-> <<>> ]

InitTwo ==
    /\ FitIdle
    /\ CacheIdle
    /\ R2Idle
    /\ BatchIdle
    /\ shared = SharedModel
    /\ \E a1 \in PairArgs, a2 \in PairArgs :
           pargs = <<WithData(a1, 1), WithData(a2, 2)>>
    /\ pfit = <<NewInstance(pargs[1]), NewInstance(pargs[2])>>
    /\ ppc = <<"new", "new">>
    /\ preads = 0

\* PopulationFit(shared, data_i, ...): the construction of Fit i
ConstructTwo(i) ==
    /\ ppc[i] = "new"
    /\ \E r \in {PopulationFit_init(pargs[i], shared,
                                     CHOOSE c \in Candidates : TRUE)} :
           /\ pfit' = [pfit EXCEPT ![i] = r.fit]
           /\ shared' = r.model
           /\ ppc' = [ppc EXCEPT ![i] = IF r.fit.exc = "none"
                                        THEN "constructed" ELSE "raised"]
    /\ UNCHANGED <<pargs, preads, fitVars, cacheVars, r2Vars, batchVars>>

\* a read of attribute name of Fit i
ReadTwo(i, name) ==
    /\ ppc[i] = "constructed"
    /\ preads < MaxPairReads
    /\ preads' = preads + 1
    /\ \E o \in Oracles(name) :
         \E r \in {ReadAttr(pfit[i], shared, name, o)} :
             /\ ~r.stuck
             /\ pfit' = [pfit EXCEPT ![i] = [r EXCEPT !.exc = "none",
                                                      !.ret = None]]
    /\ UNCHANGED <<shared, pargs, ppc, fitVars, cacheVars, r2Vars,
                   batchVars>>

\* the attributes the callers read of the two Fits: the search, the
\* ballpark, the refinement, the prediction and the goodness of fit
PairFields ==
    { "brute_force", "slope", "ballpark", "gradient_descent", "estimate",
      "prediction", "rss", "rsquared" }

NextTwo ==
    \E i \in 1..2 :
        ConstructTwo(i) \/ \E name \in PairFields : ReadTwo(i, name)

SpecTwo == InitTwo /\ [][NextTwo]_vars

---------------------------------------------------------------------------
(* One Fit on a model that carries a cached model table.                   *)

\* the path the cached table was loaded from
CachePath == <<"cache.pkl">>

\* the cached timeseries, index-aligned with CachedParameters; the first
\* and the last are equal
CachedTimeseries ==
    << VOfInts(<<1, 2, 1>>), VOfInts(<<0, 1, 0>>), VOfInts(<<2, 1, 0>>),
       VOfInts(<<1, 2, 1>>) >>

\* the parameter vectors (x, y, sigma, beta, baseline) of the cached table
CachedParameters ==
    << VOfInts(<<2, 0, 2, 1, 0>>), VOfInts(<<2, 0, 1, 1, 0>>),
       VOfInts(<<1, 0, 2, 1, 0>>), VOfInts(<<2, 0, 1, 1, 1>>) >>

\* the data of the Fit: equal to two cached timeseries, equal to one, and
\* at the same distance from two different ones
LookupData ==
    { VOfInts(<<1, 2, 1>>), VOfInts(<<2, 1, 0>>), VOfInts(<<1, 1, 0>>) }

LookupArgs ==
    { [a EXCEPT !.data = d] :
        a \in { b \in ArgSpace : /\ b.verbose = 0 /\ b.nuisance = None
                                  /\ ~b.grid_only
                                  /\ b.fit_method \in ValidFitMethods },
        d \in LookupData }

LookupModels ==
    { [m EXCEPT !.cached_model_path = CachePath,
                !.cached_model_timeseries = CachedTimeseries,
                !.cached_model_parameters = CachedParameters] :
        m \in ModelSpace }

InitLookup ==
    /\ pc = "new"
    /\ args \in LookupArgs
    /\ model \in LookupModels
    /\ fit = NewInstance(args)
    /\ last = NoCall
    /\ reads = 0
    /\ CacheIdle
    /\ R2Idle
    /\ TwoIdle
    /\ BatchIdle

SpecLookup == InitLookup /\ [][Next]_vars

---------------------------------------------------------------------------
(* parallel_fit: one unit of a batch, built as a SpatioTemporalFit whose   *)
(* base class is the PopulationFit above.                                  *)

\* unit identifiers of the batch
VoxelIndices == { <<1, 2, 3>>, <<4, 5, 6>>, <<7, 8, 9>> }

\* the argument tuples parallel_fit is handed, by the name it unpacks each
\* position to
JobSpace ==
    [ model : {SharedModel}, data : {PairData[1], PairData[2]},
      grids : {Grids}, bounds : {Bounds}, Ns : {2, 3}, tr_length : {1, 2},
      voxel_index : VoxelIndices, auto_fit : BOOLEAN, verbose : 0..2 ]

\* a Python int where a string is expected: it equals none of the strings
\* it is compared with
NonString(v) == ToString(v)

\* the call PopulationFit.__init__(self, model, data, grids, bounds, Ns,
\* tr_length, voxel_index, auto_fit, verbose) of SpatioTemporalFit.__init__:
\* what each parameter of PopulationFit.__init__ is bound to, the parameters
\* past the ninth position taking their defaults
BoundArgs(j) ==
    [ data |-> j.data, grids |-> j.grids, bounds |-> j.bounds,
      voxel_index |-> j.Ns, Ns |-> j.tr_length, auto_fit |-> j.voxel_index,
      grid_only |-> j.auto_fit, fit_method |-> NonString(j.verbose),
      outer_limit |-> R(2), nuisance |-> <<"detrend_psc">>, verbose |-> 0 ]

\* SpatioTemporalFit.__init__ after PopulationFit.__init__ returned: start,
\* ballpark, estimate, OLS (which reads the prediction), finish, summary.
\* self.auto_fit holds whatever the seventh position carried.
SpatioTemporalFit_stages(f, m, o) ==
    IF Len(f.auto_fit) = 0 THEN f
    ELSE The({ The({ The({ The({
        IF Ok(f4) /\ f4.verbose THEN msg(f4, m, o) ELSE f4 :
        f4 \in { IF Ok(f3) THEN [f3 EXCEPT !.finish = Now(f3)]
                 ELSE f3 } }) :
        f3 \in { prediction(f2, m, o) } }) :
        f2 \in { estimate(ballpark(f1, m), m, o) } }) :
        f1 \in { [f EXCEPT !.start = Now(f)] } })

\* SpatioTemporalFit.__init__
SpatioTemporalFit_init(j, o) ==
    The({ IF r.fit.exc # "none" THEN r
          ELSE [r EXCEPT !.fit = SpatioTemporalFit_stages(r.fit, r.model, o)] :
          r \in {PopulationFit_init(BoundArgs(j), j.model, o)} })

\* parallel_fit(args)
parallel_fit(j, o) == SpatioTemporalFit_init(j, o)

InitBatch ==
    /\ CacheIdle
    /\ R2Idle
    /\ TwoIdle
    /\ job \in JobSpace
    /\ pc = "new"
    /\ args = BoundArgs(job)
    /\ model = job.model
    /\ fit = NewInstance(args)
    /\ last = NoCall
    /\ reads = 0

\* fit = parallel_fit(job), in a worker of the pool
ParallelFit ==
    /\ pc = "new"
    /\ \E o \in Candidates :
         \E r \in {parallel_fit(job, o)} :
             /\ ~r.fit.stuck
             /\ fit' = r.fit
             /\ model' = r.model
             /\ pc' = IF r.fit.exc = "none" THEN "constructed" ELSE "raised"
             /\ last' = [name |-> "parallel_fit", outcome |-> Outcome(r.fit),
                         value |-> <<>>]
    /\ UNCHANGED <<args, reads, cacheVars, r2Vars, twoVars, batchVars>>

NextBatch == ParallelFit

SpecBatch == InitBatch /\ [][NextBatch]_vars

---------------------------------------------------------------------------
(* Properties of the Fit (Spec)                                            *)

\* the Fit was constructed from a valid fit_method argument
ValidCall ==
    pc \in {"constructed", "raised"} /\ args.fit_method \in ValidFitMethods

\* first position of entry e in the construction log, 0 when absent
Pos(e) ==
    IF \E i \in 1..Len(fit.log) : fit.log[i] = e
    THEN CHOOSE i \in 1..Len(fit.log) :
             fit.log[i] = e /\ \A j \in 1..(i - 1) : fit.log[j] # e
    ELSE 0

\* entry a comes before entry b when the construction log holds both
Before(a, b) == (Pos(a) > 0 /\ Pos(b) > 0) => Pos(a) < Pos(b)

\* C1, as the spec states it: for every valid fit_method and any auto_fit,
\* grid_only and verbose, constructing a PopulationFit does not raise, and an
\* estimate, once computed, has one entry per fitted parameter (one per
\* bounds entry).
C1_ConstructionNeverRaises ==
    ValidCall =>
        /\ pc = "constructed"
        /\ Has(fit, "estimate") =>
               Len(Val(fit, "estimate")) = Len(fit.bounds)

\* C2: a fit_method outside {2step, grid_only, global_opt} makes construction
\* fail with the assertion, whatever the other arguments are, before the
\* nuisance function is applied, before the data is pushed to the model and
\* before any stage runs.
C2_InvalidFitMethodFailsFirst ==
    (pc # "new" /\ args.fit_method \notin ValidFitMethods) =>
        /\ pc = "raised"
        /\ last.outcome = "AssertionError"
        /\ fit.nuisance_calls = 0
        /\ fit.data = args.data
        /\ ~fit.pushed
        /\ model.data = None
        /\ fit.log = <<>>
        /\ \A n \in Fields : fit.calls[n] = 0 /\ ~Has(fit, n)

\* an invalid fit_method was rejected although grid_only was set, a nuisance
\* function was configured and auto_fit was on
C2_Witness ==
    /\ pc = "raised"
    /\ args.fit_method \notin ValidFitMethods
    /\ args.grid_only
    /\ args.nuisance # None
    /\ args.auto_fit

\* C3, as the spec states it: under grid_only neither the construction nor a
\* read of prediction invokes the local or the global optimizer, and the
\* prediction is the model's prediction function evaluated at ballpark.
C3_GridOnlyNeverRefines ==
    [][ ((Construct \/ Read("prediction"))
            /\ pc' = "constructed" /\ fit'.fit_method = "grid_only") =>
        /\ fit'.calls["gradient_descent"] = fit.calls["gradient_descent"]
        /\ fit'.calls["global_opt"] = fit.calls["global_opt"]
        /\ Has(fit', "prediction") =>
               /\ Has(fit', "ballpark")
               /\ Val(fit', "prediction") =
                      generate_prediction(model', Val(fit', "ballpark")) ]_vars

\* the fields the flush overwrites
FlushedFields == {"brute_force", "gradient_descent", "global_opt"}

\* the value a read of field n returned is the one its computation produced
ReadsFirstValue(n) == fit.first[n] # <<>> => fit.memo[n] = fit.first[n]

\* the caller's last read returned what the instance holds for the field
LastReadIsStored ==
    (last.name \in Fields /\ last.outcome = "returned") =>
        last.value = fit.memo[last.name]

\* C4, as the spec states it: at any point of the Fit's life, a read of a
\* memoized field returns the value its first computation produced, and the
\* body of every field runs at most once.
C4_MemoizedForLife ==
    pc = "constructed" =>
        /\ LastReadIsStored
        /\ \A n \in Fields : ReadsFirstValue(n) /\ fit.calls[n] <= 1

\* C4, amended: a read returns the value the instance holds; for every field
\* but brute_force, gradient_descent and global_opt that is the value of the
\* field's first computation; these three hold either that value or, after
\* an automatic fitting on a model without store_search_space, the list of
\* None the constructor's flush put there; and a body that returned a value
\* never runs again (a body that raised stores nothing and runs again on the
\* next read).
C4_MemoizedButFlushed ==
    pc = "constructed" =>
        /\ LastReadIsStored
        /\ \A n \in Fields :
            /\ fit.done[n] <= 1
            /\ \/ ReadsFirstValue(n)
               \/ /\ n \in FlushedFields
                  /\ args.auto_fit /\ ~model.store_search_space
                  /\ fit.memo[n][1].kind = "flushed"

\* after an automatic fitting that flushed the grid search, the caller read
\* rsquared again and got the value computed at construction
C4_Witness ==
    /\ pc = "constructed"
    /\ args.auto_fit
    /\ fit.first["brute_force"] # <<>>
    /\ fit.memo["brute_force"][1].kind = "flushed"
    /\ last.name = "rsquared" /\ last.outcome = "returned"
    /\ fit.first["rsquared"] # <<>>
    /\ last.value = fit.first["rsquared"]
    /\ reads = MaxReads

\* C5, as the spec states it: a configured nuisance function is applied
\* exactly once, during construction, and both the Fit's own data and the
\* data pushed down to the Model are the nuisance-processed data.
C5_NuisanceDataEverywhere ==
    (pc = "constructed" /\ args.nuisance # None) =>
        /\ fit.nuisance_calls = 1
        /\ fit.data = NuisanceOf(args.nuisance, args.data)
        /\ model.data = NuisanceOf(args.nuisance, args.data)

\* sqrt(x^2 + y^2) <= c
RadiusWithin(x, y, c) ==
    RLe(R(0), c) /\ RLe(RAdd(RMul(x, x), RMul(y, y)), RMul(c, c))

\* C7: under 2step the local optimizer is handed exactly two constraints,
\* r <= screen_dva and r - outer_limit * sigma <= screen_dva / 2 with
\* r = sqrt(x^2 + y^2), and the refined estimate satisfies both.
C7_RefinedEstimateInsideScreen ==
    (pc = "constructed" /\ args.fit_method = "2step") =>
        /\ Len(fit.constraints) = 2
        /\ fit.constraints[1] =
               [fun |-> "radius", outer_limit |-> R(0), lb |-> NegInf,
                ub |-> model.stimulus.screen_dva]
        /\ fit.constraints[2] =
               [fun |-> "radius_minus_limit", outer_limit |-> args.outer_limit,
                lb |-> NegInf, ub |-> RDiv(model.stimulus.screen_dva, R(2))]
        /\ Has(fit, "estimate") =>
               /\ RadiusWithin(Val(fit, "estimate")[1], Val(fit, "estimate")[2],
                               model.stimulus.screen_dva)
               /\ RadiusWithin(Val(fit, "estimate")[1], Val(fit, "estimate")[2],
                               RAdd(RDiv(model.stimulus.screen_dva, R(2)),
                                    RMul(args.outer_limit,
                                         Val(fit, "estimate")[3])))

\* a 2step Fit holds an estimate the local optimizer returned from the grid
\* winner
C7_Witness ==
    /\ pc = "constructed"
    /\ args.fit_method = "2step" /\ ~args.grid_only
    /\ Has(fit, "estimate")
    /\ fit.first["gradient_descent"] # <<>>
    /\ fit.first["ballpark"] # <<>>

\* the stages __init__ ran, by the moment each returned
StageRet(n) == <<"ret", n>>

\* C10, as the spec states it: with auto_fit the constructor runs the
\* nuisance preprocessing before every stage, and the stages it runs finish
\* in dependency order: ballpark, then estimate, then rss, then rsquared (all
\* four under fit_method 2step); without auto_fit the constructor runs no
\* stage, and a stage runs on the first read of a field that depends on it
\* and never again once it returned.
C10_StagesInDependencyOrder ==
    pc = "constructed" =>
        /\ args.nuisance # None =>
               /\ Pos(<<"step", "nuisance">>) = 1
               /\ fit.nuisance_calls = 1
        /\ Before(StageRet("ballpark"), StageRet("estimate"))
        /\ Before(StageRet("estimate"), StageRet("rss"))
        /\ Before(StageRet("rss"), StageRet("rsquared"))
        /\ (args.auto_fit /\ args.fit_method = "2step") =>
               \A n \in {"ballpark", "estimate", "rss", "rsquared"} :
                   Pos(StageRet(n)) > 0
        /\ ~args.auto_fit =>
               /\ \A i \in 1..Len(fit.log) : fit.log[i][1] = "step"
               /\ reads = 0 => \A n \in Fields : fit.calls[n] = 0
               /\ \A n \in Fields : fit.done[n] <= 1

---------------------------------------------------------------------------
(* Properties of the stages and of the paths to the ballpark (Spec)        *)

\* the caller's call that this step made is one of names
StepOf(names) == (pc' # pc \/ reads' # reads) /\ last'.name \in names

\* the body of field n did not start in this step
NotInvoked(n) == fit'.calls[n] = fit.calls[n]

\* C11: an estimate a Fit holds is the global optimizer's result when the
\* Fit's fit_method is global_opt and the local optimizer's result
\* otherwise; and under global_opt neither the construction nor a read of
\* estimate, prediction, rss or rsquared starts the brute-force grid search
\* or the local optimizer.
C11_EstimateByFitMethod ==
    [][ /\ Has(fit', "estimate") =>
              Val(fit', "estimate") =
                  IF fit'.fit_method = "global_opt"
                  THEN fit'.first["global_opt"][1].x
                  ELSE fit'.first["gradient_descent"][1].x
        /\ ( /\ StepOf({"__init__", "estimate", "prediction", "rss",
                        "rsquared"})
             /\ fit'.fit_method = "global_opt" ) =>
              /\ NotInvoked("brute_force")
              /\ NotInvoked("gradient_descent") ]_vars

\* a global_opt Fit built without automatic fitting was read for rsquared:
\* the global optimizer ran once, the grid search and the local optimizer
\* never did
C11_Witness ==
    /\ pc = "constructed"
    /\ fit.fit_method = "global_opt"
    /\ ~args.auto_fit
    /\ last.name = "rsquared" /\ last.outcome = "returned"
    /\ Has(fit, "estimate")
    /\ fit.calls["global_opt"] = 1
    /\ fit.calls["brute_force"] = 0
    /\ fit.calls["gradient_descent"] = 0

\* the body of field n started in a stage of __init__, before the summary
\* was printed
RanInStages(n) ==
    /\ Pos(<<"call", n>>) > 0
    /\ Pos(<<"step", "print">>) > 0 =>
           Pos(<<"call", n>>) < Pos(<<"step", "print">>)

\* the fields of the refinement stage and of the goodness of fit
RefinementAndFit ==
    {"estimate", "gradient_descent", "global_opt", "rss", "rsquared"}

\* C12, as the spec states it: the stages of an automatic fitting follow the
\* Fit's effective fit_method; with the grid_only flag set, whatever the
\* fit_method argument, the stages of __init__ run no refinement and compute
\* neither rss nor rsquared, as with fit_method = grid_only passed directly.
C12_FlagSkipsRefinement ==
    (pc # "new" /\ args.auto_fit /\ args.fit_method \in ValidFitMethods
        /\ EffectiveFitMethod(args.grid_only, args.fit_method) = "grid_only")
    => \A n \in RefinementAndFit : ~RanInStages(n)

\* C13, as the spec states it: for a Fit whose fit_method is grid_only the
\* estimate stage is never reached: neither the construction nor a later
\* read of prediction, rss, rsquared, rsquared_adj, rsquared0 or msg starts
\* estimate, the local optimizer or the global optimizer, and the prediction
\* is taken at the ballpark.
C13_GridOnlyNeverReachesEstimate ==
    [][ ( /\ StepOf({"__init__", "prediction", "rss", "rsquared",
                     "rsquared_adj", "rsquared0", "msg"})
          /\ fit'.fit_method = "grid_only" ) =>
        /\ NotInvoked("estimate")
        /\ NotInvoked("gradient_descent")
        /\ NotInvoked("global_opt")
        /\ Has(fit', "prediction") =>
               Val(fit', "prediction") =
                   generate_prediction(model', Val(fit', "ballpark")) ]_vars

\* the grid combination the first grid search of the Fit returned
GridWinner == fit.first["brute_force"][1].x0

\* p has the least error of all grid combinations against the Fit's data
LeastGridError(p) ==
    The({ \A k \in 1..Len(t[2]) : RLe(t[1], t[2][k]) :
          t \in { << error_function(model, p, fit.data),
                     Vec([k \in 1..Len(GridCombos(fit.grids)) |->
                            error_function(model, GridCombos(fit.grids)[k],
                                           fit.data)]) >> } })

\* the Fit took the brute-force path to a ballpark it holds
BruteForcePath ==
    /\ pc = "constructed"
    /\ fit.fit_method # "global_opt"
    /\ model.cached_model_path = None
    /\ Has(fit, "ballpark")

\* C15: on the brute-force path the ballpark is the grid combination of
\* least error followed by the slope and the intercept of the least-squares
\* regression of that combination's ballpark prediction against the data:
\* one entry per free parameter of the model, with the winner unchanged in
\* front, and two more.
C15_BallparkIsWinnerSlopeIntercept ==
    BruteForcePath =>
        /\ Len(Val(fit, "ballpark")) = FreeParams + 2
        /\ SubSeq(Val(fit, "ballpark"), 1, FreeParams) = GridWinner
        /\ GridWinner \in { GridCombos(fit.grids)[k] :
                                k \in 1..Len(GridCombos(fit.grids)) }
        /\ LeastGridError(GridWinner)
        /\ <<Val(fit, "ballpark")[FreeParams + 1],
              Val(fit, "ballpark")[FreeParams + 2]>> =
               linregress(generate_ballpark_prediction(model, GridWinner),
                          fit.data)

\* an automatic 2step fitting left a ballpark whose slope and intercept
\* differ, on a model whose grid search was flushed afterwards
C15_Witness ==
    /\ BruteForcePath
    /\ args.auto_fit /\ args.fit_method = "2step" /\ ~args.grid_only
    /\ fit.memo["brute_force"][1].kind = "flushed"
    /\ Val(fit, "ballpark")[FreeParams + 1] #
           Val(fit, "ballpark")[FreeParams + 2]

\* the global optimizer started in this step
GlobalSearchRan == ~NotInvoked("global_opt")

\* C16, as the spec states it: under global_opt the ballpark is a vector of
\* unset values with one entry per free parameter of the model plus two,
\* no step in which the global optimizer runs computes or reads it or
\* starts the local optimizer, and the estimate of the refinement has the
\* length of the ballpark.
C16_PlaceholderSizedLikeEstimate ==
    [][ fit'.fit_method = "global_opt" =>
        /\ Has(fit', "ballpark") =>
               /\ Len(Val(fit', "ballpark")) = FreeParams + 2
               /\ \A k \in 1..Len(Val(fit', "ballpark")) :
                      Val(fit', "ballpark")[k] = None
               /\ Has(fit', "estimate") =>
                      Len(Val(fit', "estimate")) = Len(Val(fit', "ballpark"))
        /\ GlobalSearchRan =>
               NotInvoked("ballpark") /\ NotInvoked("gradient_descent") ]_vars

\* C18, as the spec states it: when the automatic fitting of a Fit built
\* with fit_method = grid_only returns, neither rss nor rsquared has been
\* computed, whatever verbose is.
C18_GridOnlyOmitsGoodnessOfFit ==
    (pc = "constructed" /\ reads = 0 /\ args.auto_fit
        /\ args.fit_method = "grid_only") =>
    /\ ~Has(fit, "rss") /\ fit.calls["rss"] = 0
    /\ ~Has(fit, "rsquared") /\ fit.calls["rsquared"] = 0

\* positions of the two timestamps in the construction log
StartPos == Pos(<<"step", "start">>)

FinishPos == Pos(<<"step", "finish">>)

\* an automatic fitting ran to its end
AutoFitted == pc = "constructed" /\ args.auto_fit

\* the start is taken before every stage, the finish is not earlier, and the
\* summary reports their difference
StartFirstAndSummary ==
    /\ StartPos > 0 /\ StartPos < FinishPos
    /\ fit.start <= fit.finish
    /\ \A n \in Fields : Pos(<<"call", n>>) > 0 =>
           StartPos < Pos(<<"call", n>>)
    /\ Has(fit, "msg") =>
           Val(fit, "msg").timems = <<fit.finish - fit.start>>

\* the body of stage n returned before the finish was taken, if the
\* constructor ran it as a stage
DoneBeforeFinish(n) ==
    RanInStages(n) =>
        Pos(<<"ret", n>>) > 0 /\ Pos(<<"ret", n>>) < FinishPos

\* C19, as the spec states it: after an automatic fitting, the start was
\* taken before the first stage, the finish after the last of the stages
\* the constructor ran (ballpark, refinement, prediction, rss, rsquared),
\* the finish is not earlier than the start, and the summary reports their
\* difference.
C19_ElapsedSpansWholePipeline ==
    AutoFitted =>
        /\ StartFirstAndSummary
        /\ \A n \in {"ballpark", "estimate", "overloaded_estimate",
                      "prediction", "rss", "rsquared"} : DoneBeforeFinish(n)

\* C19, amended: the start is taken before the first stage and the finish
\* after the ballpark and the refinement, but before prediction, rss and
\* rsquared, which the constructor computes after it; the finish is not
\* earlier than the start and the summary reports their difference.
C19_ElapsedSpansSearchOnly ==
    AutoFitted =>
        /\ StartFirstAndSummary
        /\ \A n \in {"ballpark", "estimate", "overloaded_estimate"} :
               DoneBeforeFinish(n)
        /\ \A n \in {"prediction", "rss", "rsquared"} :
               Pos(<<"call", n>>) > 0 => FinishPos < Pos(<<"call", n>>)

\* a verbose automatic 2step fitting: the estimate returned before the
\* finish, rss and rsquared ran after it, and the summary was formatted
C19_Witness ==
    /\ AutoFitted
    /\ args.fit_method = "2step" /\ ~args.grid_only /\ args.verbose = 1
    /\ Pos(<<"ret", "estimate">>) > 0
    /\ Pos(<<"ret", "estimate">>) < FinishPos
    /\ FinishPos < Pos(<<"call", "rss">>)
    /\ FinishPos < Pos(<<"call", "rsquared">>)
    /\ Has(fit, "msg")
    /\ fit.start < fit.finish

---------------------------------------------------------------------------
(* Properties of two Fits on one Model (SpecTwo)                           *)

\* Fit i as it is when it is the only Fit constructed on the model
AloneFit(i) ==
    PopulationFit_init(pargs[i], SharedModel,
                       CHOOSE c \in Candidates : TRUE)

\* the ballpark Fit i computes when it is the only Fit on the model
AloneBallpark(i) ==
    The({ Val(ballpark(r.fit, r.model), "ballpark") : r \in {AloneFit(i)} })

\* the estimates the refinement of Fit i may end at when it is alone
AloneEstimates(i) ==
    The({ IF r.fit.fit_method = "global_opt"
          THEN global_search(r.fit.bounds, r.fit.constraints)
          ELSE gradient_descent_search(AloneBallpark(i), r.fit.bounds,
                                       r.fit.constraints) :
          r \in {AloneFit(i)} })

\* the fields of Fit i are those it computes alone, from its own data
OwnFields(i) ==
    /\ pfit[i].data = AloneFit(i).fit.data
    /\ Has(pfit[i], "ballpark") =>
           Val(pfit[i], "ballpark") = AloneBallpark(i)
    /\ Has(pfit[i], "estimate") =>
           Val(pfit[i], "estimate") \in AloneEstimates(i)
    /\ Has(pfit[i], "prediction") =>
           Val(pfit[i], "prediction") =
               generate_prediction(SharedModel,
                   IF pfit[i].fit_method = "grid_only"
                   THEN AloneBallpark(i)
                   ELSE Val(pfit[i], "estimate"))

---------------------------------------------------------------------------
(* Properties of the cached lookup (SpecLookup)                            *)

\* sum of squared differences of cached timeseries k from the Fit's data
CachedError(k) == RssOf(model.cached_model_timeseries[k], fit.data)

\* k is the lowest index whose cached timeseries is closest to the data
FirstClosest(k) ==
    /\ \A j \in 1..Len(model.cached_model_timeseries) :
           RLe(CachedError(k), CachedError(j))
    /\ \A j \in 1..(k - 1) : RLt(CachedError(k), CachedError(j))

\* C17: on the cached-lookup path the ballpark is the cached parameter
\* vector at the index of the cached timeseries with the least sum of
\* squared differences from the Fit's data, the lowest such index when
\* several tie, and the step that computes it runs no brute-force search.
C17_BallparkIsFirstClosestCached ==
    [][ ( /\ pc' = "constructed"
          /\ fit'.fit_method # "global_opt"
          /\ model'.cached_model_path # None ) =>
        /\ Has(fit', "ballpark") =>
               \E k \in 1..Len(model'.cached_model_timeseries) :
                   /\ FirstClosest(k)'
                   /\ Val(fit', "ballpark") = model'.cached_model_parameters[k]
        /\ ~NotInvoked("ballpark") => NotInvoked("brute_force") ]_vars

\* the data is as close to the second cached timeseries as to the third,
\* and the ballpark read from the Fit is the second parameter vector
C17_Witness ==
    /\ pc = "constructed"
    /\ fit.fit_method # "global_opt"
    /\ model.cached_model_path # None
    /\ CachedError(2) = CachedError(3)
    /\ FirstClosest(2)
    /\ last.name = "ballpark" /\ last.outcome = "returned"
    /\ last.value = <<model.cached_model_parameters[2]>>
    /\ fit.calls["brute_force"] = 0

---------------------------------------------------------------------------
(* Properties of parallel_fit (SpecBatch)                                  *)

\* C20, as the spec states it: every call of parallel_fit returns a
\* constructed Fit whose voxel_index is the unit identifier of the argument
\* tuple and whose Ns, auto_fit and verbose are the values given there.
C20_BatchFitCarriesIdentifier ==
    pc # "new" =>
        /\ pc = "constructed"
        /\ last.outcome = "returned"
        /\ fit.voxel_index = job.voxel_index
        /\ fit.Ns = job.Ns
        /\ fit.auto_fit = job.auto_fit
        /\ fit.verbose = set_verbose(job.verbose)[1]

---------------------------------------------------------------------------
(* Properties of cache_model (SpecCache)                                   *)

AllFinite(v) == \A t \in 1..Len(v) : IsFinite(v[t])

\* C8, as the spec states it: cache_model returns exactly the (prediction,
\* combination) pairs of the combinations whose prediction holds no NaN,
\* +inf or -inf, each combination at most once, whatever the random order.
C8_NonFiniteDiscarded ==
    cpc = "returned" =>
        /\ { models[k] : k \in 1..Len(models) } =
               { <<predictor[c], c>> :
                 c \in { d \in ComboSet(cgrids) : AllFinite(predictor[d]) } }
        /\ \A i, j \in 1..Len(models) : models[i][2] = models[j][2] => i = j

\* C9, as the spec states it: a unit whose evaluation raises never aborts the
\* batch; the results of the other units are returned and the failed unit is
\* only left out.
C9_RaisingUnitLeftOut ==
    cpc # "idle" =>
        /\ cpc = "returned"
        /\ \A c \in ComboSet(cgrids) :
               (predictor[c] # Raises /\ AllFinite(predictor[c])) =>
                   \E k \in 1..Len(models) : models[k] = <<predictor[c], c>>

---------------------------------------------------------------------------
(* Properties of rsquared (SpecR2)                                         *)

ZeroVariance(data) == \A i \in 1..Len(data) : data[i] = data[1]

\* C6: rsquared lies in [0, 1] for any data and prediction; a raw value
\* below 0 is returned as 0, one above 1 as 1, and a non-finite one (as for
\* constant, zero-variance data) as 0.
C6_RSquaredInUnitInterval ==
    rsq # <<>> =>
        /\ RLe(R(0), rsq.value) /\ RLe(rsq.value, R(1))
        /\ RLt(rsq.raw, R(0)) => rsq.value = R(0)
        /\ RLt(R(1), rsq.raw) => rsq.value = R(1)
        /\ ~IsFinite(rsq.raw) => rsq.value = R(0)
        /\ ZeroVariance(sample.data) => rsq.value = R(0)
        /\ (IsFinite(rsq.raw) /\ RLe(R(0), rsq.raw) /\ RLe(rsq.raw, R(1))) =>
               rsq.value = rsq.raw

\* rsquared of constant data: the raw value is not finite and 0 is returned
C6_Witness ==
    /\ rsq # <<>>
    /\ ZeroVariance(sample.data)
    /\ ~IsFinite(rsq.raw)
    /\ rsq.value = R(0)

====
